---- MODULE Spec2Model ----
(***************************************************************************)
(* Price cache and refresh subsystem of crypto-portfolio-v2:               *)
(*   src/netlify/functions/cacheManager.js  (retryAxios,                   *)
(*        fetchAndCachePrices, initCacheManager, fetchCoinPrice)           *)
(*   src/netlify/functions/server.js        (the express handlers and the  *)
(*        background pass GET /api/portfolio starts after responding)      *)
(*                                                                         *)
(* One action is one synchronous run of JavaScript between two awaits.     *)
(* PortfolioStore (getPortfolio / savePortfolio) and the price feed        *)
(* (axios.get on /coins/markets) are external: a load reads the file when  *)
(* its promise settles, a save writes it when its promise settles, and     *)
(* either may fail.  Times are milliseconds; prices are integers in units  *)
(* of 10^-8 USD so that toFixed can be computed.                           *)
(***************************************************************************)
EXTENDS Integers, Sequences, FiniteSets, TLC

\* ---------------------------------------------------------------- constants
API_CALL_INTERVAL == 30000
CACHE_DURATION == 300000
RETRIES == 5
RETRY_DELAY == 1000
STALE_AFTER == 300000
PACING_DELAY == 3000

\* ------------------------------------------------------------------- bounds
\* Date.now() when the process starts (any value >= CACHE_DURATION)
StartTime == 1000000
\* how far the timer's start (event loop time) may lie before the first
\* Date.now() of fetchAndCachePrices
BootLag == 100
\* the clock never passes StartTime + Horizon
Horizon == 31000
\* client requests served in one run
MaxRequests == 2
\* largest amount one add request carries
MaxAmount == 1
\* store operations that reject in one run
MaxFaults == 1
\* 429 responses of the feed in one run
MaxRateLimited == 1
\* fetchAndCachePrices / fetchCoinPrice / background passes in flight at once
MaxCycles == 2
MaxFetch == 1
MaxRecon == 1

Coins == {"x", "y"}
\* prices the feed quotes, in 10^-8 USD: 0 stands for a falsy current_price
\* (0 or null), then one price per display band of the view
UsdScale == 100000000
FeedPrices == {0, 150000000}
Absent == -1
NA == -1

MaxTime == StartTime + Horizon
\* how long the run that checks the recovery from failed ticks is followed:
\* the boot call and one tick per store failure may fail, the tick after them
\* succeeds, after the waits of its retries
LiveHorizon ==
  (MaxFaults + 2) * API_CALL_INTERVAL + RETRY_DELAY * 2^MaxRateLimited

Max(a, b) == IF a >= b THEN a ELSE b

\* ------------------------------------------------------------------- state
VARIABLES
  phase,            \* "boot" until initCacheManager has run, then "serving"
  now,              \* Date.now()
  nextTickAt,       \* when the setInterval timer is due next
  store,            \* PortfolioStore: the persisted holdings list
  portfolioCache,   \* cacheManager.js portfolioCache: {} or a holdings list
  lastApiCallTime,  \* cacheManager.js lastApiCallTime
  cyc,              \* fetchAndCachePrices invocations in flight
  fetch,            \* fetchCoinPrice invocations in flight
  recon,            \* background passes of GET /api/portfolio in flight
  add,              \* the POST /api/portfolio/add request in flight
  rem,              \* the DELETE /api/portfolio/remove request in flight
  resp,             \* the last response sent to a client
  reqsLeft,         \* client requests still to arrive
  faults,           \* non-retryable store failures injected so far
  limitsLeft,       \* 429 responses the feed may still give
  batchStarts,      \* when the last two batch calls for the whole list began
  unhandled,        \* a promise rejection no handler caught
  endAt             \* the clock is not followed past this time

vars == <<phase, now, nextTickAt, store, portfolioCache, lastApiCallTime, cyc,
          fetch, recon, add, rem, resp, reqsLeft, faults, limitsLeft, batchStarts, unhandled, endAt>>

\* ---------------------------------------------------------------- holdings
\* server.js:177, the entry POST /api/portfolio/add pushes for a new coin
NewHolding(c, a) ==
  [coin |-> c, amount |-> a, usd |-> NA, ts |-> 0, named |-> FALSE]

CoinsOf(list) == {list[i].coin : i \in 1..Len(list)}

\* find never finds an entry
FindIndexNever(list, c) == 0

\* Array.prototype.find: the first entry of the coin, 0 when there is none
FindIndex(list, c) ==
  IF c \in CoinsOf(list)
    THEN CHOOSE i \in 1..Len(list) :
           /\ list[i].coin = c
           /\ \A j \in 1..(i - 1) : list[j].coin # c
    ELSE 0

\* JavaScript truthiness of lastPrice.usd: 'N/A' and a non-zero number are
\* truthy, 0 and null are falsy
Truthy(u) == u # 0

\* portfolioCache = {} (not iterable, no find) and portfolioCache = list
EmptyObject == [isArray |-> FALSE, items |-> <<>>]
ArrayOf(list) == [isArray |-> TRUE, items |-> list]

\* ---------------------------------------------------- retryAxios, the gate
\* the gate closes for half the interval only
GateClosedHalf(t) == t - lastApiCallTime < API_CALL_INTERVAL \div 2

GateClosed(t) == t - lastApiCallTime < API_CALL_INTERVAL

\* a batch call for every holding begins at time t (its retries are part of it)
LogBatch(t) ==
  IF Len(batchStarts) < 2 THEN Append(batchStarts, t)
  ELSE <<batchStarts[2], t>>

\* the quotes a /coins/markets response can carry for the ids asked
Quotes(ids) == [ids -> FeedPrices \cup {Absent}]

\* every price the response carries is added to the price already stored
ApplyQuotesAccumulate(list, q, t) ==
  [i \in 1..Len(list) |->
     IF q[list[i].coin] # Absent /\ Truthy(q[list[i].coin])
       THEN [list[i] EXCEPT !.usd = @ + q[list[i].coin], !.ts = t, !.named = TRUE]
       ELSE list[i]]

\* cacheManager.js:62-74
ApplyQuotes(list, q, t) ==
  [i \in 1..Len(list) |->
     IF q[list[i].coin] # Absent /\ Truthy(q[list[i].coin])
       THEN [list[i] EXCEPT !.usd = q[list[i].coin], !.ts = t, !.named = TRUE]
       ELSE list[i]]

\* cacheManager.js:112-122
ApplyCoinPrice(list, c, p, t) ==
  [i \in 1..Len(list) |->
     IF list[i].coin = c
       THEN [list[i] EXCEPT !.usd = p, !.ts = t, !.named = TRUE]
       ELSE list[i]]

\* the entry is pushed without looking for an existing one
AddHoldingPush(list, c, a) == Append(list, NewHolding(c, a))

\* server.js:172-178
AddHolding(list, c, a) ==
  IF FindIndex(list, c) # 0
    THEN [list EXCEPT ![FindIndex(list, c)].amount = @ + a]
    ELSE Append(list, NewHolding(c, a))

\* the first entry is dropped, whatever its coin
RemoveHoldingFirst(list, c) == IF c \in CoinsOf(list) THEN Tail(list) ELSE list

\* server.js:197
RECURSIVE RemoveHolding(_, _)
RemoveHolding(list, c) ==
  IF list = <<>> THEN <<>>
  ELSE IF Head(list).coin = c THEN RemoveHolding(Tail(list), c)
  ELSE <<Head(list)>> \o RemoveHolding(Tail(list), c)

\* ------------------------------------------------- the view, the price route
\* Number.prototype.toFixed(d) of v * 10^-8, as the integer of its digits
\* (halves round up; the prices used are never at a half)
ToFixed(v, d) ==
  IF d = 2 THEN (v + 500000) \div 1000000
  ELSE IF d = 4 THEN (v + 5000) \div 10000
  ELSE v

NoDisplay == [dec |-> 0, digits |-> 0]

\* server.js:78
DisplayPrice(p) ==
  IF p >= UsdScale THEN [dec |-> 2, digits |-> ToFixed(p, 2)]
  ELSE IF p >= UsdScale \div 10000 THEN [dec |-> 4, digits |-> ToFixed(p, 4)]
  ELSE [dec |-> 8, digits |-> ToFixed(p, 8)]

\* server.js:68-97, one row of the response
ViewRow(item) ==
  IF Truthy(item.usd)
    THEN [coin |-> item.coin, amount |-> item.amount, cached |-> TRUE,
          price |-> DisplayPrice(item.usd),
          value |-> ToFixed(item.amount * item.usd, 2), hasValue |-> TRUE]
    ELSE [coin |-> item.coin, amount |-> item.amount, cached |-> FALSE,
          price |-> NoDisplay, value |-> 0, hasValue |-> FALSE]

RECURSIVE TotalValue(_)
TotalValue(rows) ==
  IF rows = <<>> THEN 0
  ELSE (IF Head(rows).hasValue THEN Head(rows).value ELSE 0) + TotalValue(Tail(rows))

\* server.js:61-100 and 158-160: for..of over {} throws (not iterable), and
\* 'N/A'.toFixed throws (the string is truthy and has no toFixed); the catch
\* answers 500
PortfolioView(c) ==
  IF ~c.isArray \/ (\E i \in 1..Len(c.items) : c.items[i].usd = NA)
    THEN [status |-> 500, rows |-> <<>>, total |-> 0]
    ELSE LET rows == [i \in 1..Len(c.items) |-> ViewRow(c.items[i])]
         IN [status |-> 200, rows |-> rows, total |-> TotalValue(rows)]

\* server.js:40-53: {}.find throws, the catch answers 500
PriceLookup(c, id) ==
  IF ~c.isArray THEN [status |-> 500, price |-> 0, value |-> 0]
  ELSE LET i == FindIndex(c.items, id) IN
       IF i # 0 /\ c.items[i].usd # NA
         THEN [status |-> 200, price |-> c.items[i].usd,
               value |-> ToFixed(c.items[i].amount * c.items[i].usd, 2)]
         ELSE [status |-> 404, price |-> 0, value |-> 0]

\* ------------------------------------------------------------------- tasks
NoQuotes == [c \in Coins |-> Absent]
QuotesFor(ids, q) == [c \in Coins |-> IF c \in ids THEN q[c] ELSE Absent]

CycIdle ==
  [pc |-> "idle", list |-> <<>>, live |-> NoQuotes, retries |-> 0,
   delay |-> 0, wakeAt |-> 0, waits |-> <<>>]
FetchIdle ==
  [pc |-> "idle", coin |-> "", price |-> 0, list |-> <<>>, retries |-> 0,
   delay |-> 0, wakeAt |-> 0, waits |-> <<>>]
ReconIdle ==
  [pc |-> "idle", list |-> <<>>, live |-> NoQuotes, i |-> 0, wakeAt |-> 0]
ReqIdle == [pc |-> "idle", coin |-> "", amount |-> 0, list |-> <<>>]
NoResp == [op |-> "none", status |-> 0, coin |-> ""]

IdleSlots(f) == {k \in DOMAIN f : f[k].pc = "idle"}
FreeSlot(f) == CHOOSE k \in IdleSlots(f) : \A j \in IdleSlots(f) : k <= j

\* timers that are armed, and the order they fire in
Pending ==
  (IF phase = "serving" THEN {nextTickAt} ELSE {})
  \cup {cyc[k].wakeAt : k \in {j \in DOMAIN cyc : cyc[j].pc = "wait"}}
  \cup {fetch[k].wakeAt : k \in {j \in DOMAIN fetch : fetch[j].pc = "wait"}}
  \cup {recon[k].wakeAt : k \in {j \in DOMAIN recon : recon[j].pc = "sleep"}}
Due(d) == (\A e \in Pending : d <= e) /\ Max(now, d) <= endAt

\* what portfolio.json may hold when the process starts: nothing, or a
\* holding an earlier run priced, which turns stale at the first tick
AgedHolding ==
  [coin |-> "x", amount |-> 1, usd |-> 150000000,
   ts |-> StartTime - CACHE_DURATION + API_CALL_INTERVAL, named |-> TRUE]
InitStores == {<<>>, <<AgedHolding>>}

Init ==
  /\ phase = "boot"
  /\ now = StartTime
  /\ nextTickAt = 0
  /\ store \in InitStores
  /\ portfolioCache = EmptyObject
  /\ lastApiCallTime = 0
  /\ cyc = [k \in 1..1 |-> CycIdle]
  /\ fetch = [k \in 1..MaxFetch |-> FetchIdle]
  /\ recon = [k \in 1..MaxRecon |-> ReconIdle]
  /\ add = ReqIdle
  /\ rem = ReqIdle
  /\ resp = NoResp
  /\ reqsLeft = MaxRequests
  /\ faults = 0
  /\ limitsLeft = MaxRateLimited
  /\ batchStarts = <<>>
  /\ unhandled = FALSE
  /\ endAt = MaxTime

\* ------------------------------------------------ retryAxios (both callers)
\* a 429 is retried whatever retries holds
RetryAgainAlways(retries) == retries >= 0
\* cacheManager.js:18, a 429 is retried while retries > 0
RetryAgain(retries) == retries > 0
\* cacheManager.js:21, the arguments of the recursive call
NextRetries(retries) == retries - 1
\* the delay grows by one second instead of doubling
NextDelayLinear(delay) == delay + RETRY_DELAY
NextDelay(delay) == delay * 2

\* ---------------------------------- initCacheManager, fetchAndCachePrices
\* cacheManager.js:29-36 and 39: the gate is open, lastApiCallTime is set and
\* getPortfolio() is called, all before the first await
StartCycle(t) ==
  /\ ~GateClosed(t)
  /\ IdleSlots(cyc) # {}
  /\ lastApiCallTime' = t
  /\ cyc' = [cyc EXCEPT ![FreeSlot(cyc)] = [CycIdle EXCEPT !.pc = "load"]]

\* cacheManager.js:85-88: the first call, then the timer is armed; the timer
\* counts from the event loop's time, which may lie behind Date.now()
InitCacheManager ==
  /\ phase = "boot"
  /\ phase' = "serving"
  /\ StartCycle(now)
  /\ \E lag \in {0, BootLag} : nextTickAt' = now - lag + API_CALL_INTERVAL
  /\ UNCHANGED <<now, store, portfolioCache, fetch, recon, add, rem, resp,
                   reqsLeft, faults, limitsLeft, batchStarts, unhandled,
                   endAt>>

\* the timer fires and the gate is open (cacheManager.js:29-39)
TickStart ==
  /\ phase = "serving"
  /\ Due(nextTickAt)
  /\ now' = Max(now, nextTickAt)
  /\ nextTickAt' = now' + API_CALL_INTERVAL
  /\ StartCycle(now')
  /\ UNCHANGED <<phase, store, portfolioCache, fetch, recon, add, rem, resp,
                   reqsLeft, faults, limitsLeft, batchStarts, unhandled,
                   endAt>>

\* the timer fires and the gate is closed (cacheManager.js:30-33)
TickSkip ==
  /\ phase = "serving"
  /\ Due(nextTickAt)
  /\ now' = Max(now, nextTickAt)
  /\ nextTickAt' = now' + API_CALL_INTERVAL
  /\ GateClosed(now')
  /\ UNCHANGED <<phase, store, portfolioCache, lastApiCallTime, cyc, fetch,
                   recon, add, rem, resp, reqsLeft, faults, limitsLeft,
                   batchStarts, unhandled, endAt>>

\* cacheManager.js:39-55: getPortfolio() settles with the stored list
CycLoaded(k) ==
  /\ k \in DOMAIN cyc
  /\ cyc[k].pc = "load"
  /\ IF store = <<>>
       THEN \* 42-44: the cache is cleared, savePortfolio([]) is called
            /\ portfolioCache' = EmptyObject
            /\ cyc' = [cyc EXCEPT ![k] = [CycIdle EXCEPT !.pc = "saveEmpty"]]
            /\ UNCHANGED batchStarts
       ELSE \* 48: the first attempt of the batch request starts
            /\ cyc' = [cyc EXCEPT ![k] =
                 [CycIdle EXCEPT !.pc = "call", !.list = store,
                                 !.retries = RETRIES, !.delay = RETRY_DELAY]]
            /\ batchStarts' = LogBatch(now)
            /\ UNCHANGED portfolioCache
  /\ UNCHANGED <<phase, now, nextTickAt, store, lastApiCallTime, fetch, recon,
                   add, rem, resp, reqsLeft, faults, limitsLeft, unhandled,
                   endAt>>

\* the rejection is not caught: the process ends and its timer with it
CycStoreFailsUncaught(k) ==
  /\ k \in DOMAIN cyc
  /\ cyc[k].pc \in {"load", "save", "saveEmpty"}
  /\ faults < MaxFaults
  /\ faults' = faults + 1
  /\ phase' = "down"
  /\ cyc' = [cyc EXCEPT ![k] = CycIdle]
  /\ UNCHANGED <<now, nextTickAt, store, portfolioCache, lastApiCallTime,
                   fetch, recon, add, rem, resp, reqsLeft, limitsLeft,
                   batchStarts, unhandled, endAt>>

\* a store operation of fetchAndCachePrices rejects: caught at line 79
CycStoreFails(k) ==
  /\ k \in DOMAIN cyc
  /\ cyc[k].pc \in {"load", "save", "saveEmpty"}
  /\ faults < MaxFaults
  /\ faults' = faults + 1
  /\ cyc' = [cyc EXCEPT ![k] = CycIdle]
  /\ UNCHANGED <<phase, now, nextTickAt, store, portfolioCache,
                   lastApiCallTime, fetch, recon, add, rem, resp, reqsLeft,
                   limitsLeft, batchStarts, unhandled, endAt>>

\* cacheManager.js:44-45: savePortfolio([]) settles
CycEmptySaved(k) ==
  /\ k \in DOMAIN cyc
  /\ cyc[k].pc = "saveEmpty"
  /\ store' = <<>>
  /\ cyc' = [cyc EXCEPT ![k] = CycIdle]
  /\ UNCHANGED <<phase, now, nextTickAt, portfolioCache, lastApiCallTime,
                   fetch, recon, add, rem, resp, reqsLeft, faults, limitsLeft,
                   batchStarts, unhandled, endAt>>

\* cacheManager.js:16 and 57-76: the request succeeds, the holdings are
\* updated and savePortfolio(updatedPortfolio) is called
CycPriced(k) ==
  /\ k \in DOMAIN cyc
  /\ cyc[k].pc = "call"
  /\ \E q \in Quotes(CoinsOf(cyc[k].list)) :
       cyc' = [cyc EXCEPT ![k] =
         [CycIdle EXCEPT !.pc = "save",
                         !.live = QuotesFor(CoinsOf(cyc[k].list), q),
                         !.list = ApplyQuotes(cyc[k].list, q, now)]]
  /\ UNCHANGED <<phase, now, nextTickAt, store, portfolioCache,
                   lastApiCallTime, fetch, recon, add, rem, resp, reqsLeft,
                   faults, limitsLeft, batchStarts, unhandled, endAt>>

\* cacheManager.js:18-21: a 429 with retries left, the wrapper waits delay
CycRateLimited(k) ==
  /\ k \in DOMAIN cyc
  /\ cyc[k].pc = "call"
  /\ RetryAgain(cyc[k].retries)
  /\ limitsLeft > 0
  /\ limitsLeft' = limitsLeft - 1
  /\ cyc' = [cyc EXCEPT ![k] =
       [cyc[k] EXCEPT !.pc = "wait", !.wakeAt = now + cyc[k].delay,
                      !.waits = Append(cyc[k].waits, cyc[k].delay)]]
  /\ UNCHANGED <<phase, now, nextTickAt, store, portfolioCache,
                   lastApiCallTime, fetch, recon, add, rem, resp, reqsLeft,
                   faults, batchStarts, unhandled, endAt>>

\* cacheManager.js:20-21 and 16: the wait is over, the next attempt starts
CycRetry(k) ==
  /\ k \in DOMAIN cyc
  /\ cyc[k].pc = "wait"
  /\ Due(cyc[k].wakeAt)
  /\ now' = Max(now, cyc[k].wakeAt)
  /\ cyc' = [cyc EXCEPT ![k] =
       [cyc[k] EXCEPT !.pc = "call", !.wakeAt = 0,
                      !.retries = NextRetries(cyc[k].retries),
                      !.delay = NextDelay(cyc[k].delay)]]
  /\ UNCHANGED <<phase, nextTickAt, store, portfolioCache, lastApiCallTime,
                   fetch, recon, add, rem, resp, reqsLeft, faults, limitsLeft,
                   batchStarts, unhandled, endAt>>

\* cacheManager.js:22-24 and 79-81: a 429 with no retries left, or any other
\* failure, is thrown to fetchAndCachePrices, which logs it
CycFeedFails(k) ==
  /\ k \in DOMAIN cyc
  /\ cyc[k].pc = "call"
  /\ \E status \in {429, 500} :
       /\ status = 429 => ~RetryAgain(cyc[k].retries) /\ limitsLeft > 0
       /\ limitsLeft' = IF status = 429 THEN limitsLeft - 1 ELSE limitsLeft
  /\ cyc' = [cyc EXCEPT ![k] = CycIdle]
  /\ UNCHANGED <<phase, now, nextTickAt, store, portfolioCache,
                   lastApiCallTime, fetch, recon, add, rem, resp, reqsLeft,
                   faults, batchStarts, unhandled, endAt>>

\* cacheManager.js:76-78: savePortfolio settles, the cache is replaced
CycSaved(k) ==
  /\ k \in DOMAIN cyc
  /\ cyc[k].pc = "save"
  /\ store' = cyc[k].list
  /\ portfolioCache' = ArrayOf(cyc[k].list)
  /\ cyc' = [cyc EXCEPT ![k] = CycIdle]
  /\ UNCHANGED <<phase, now, nextTickAt, lastApiCallTime, fetch, recon, add,
                   rem, resp, reqsLeft, faults, limitsLeft, batchStarts,
                   unhandled, endAt>>

\* ----------------------------------------------------------- fetchCoinPrice
\* cacheManager.js:100-110: the request succeeds; with no data the function
\* ends, otherwise getPortfolio() is called
FetchPriced(f) ==
  /\ fetch[f].pc = "call"
  /\ \E p \in FeedPrices \cup {Absent} :
       fetch' = [fetch EXCEPT ![f] =
         IF p = Absent THEN FetchIdle
         ELSE [FetchIdle EXCEPT !.pc = "load", !.coin = fetch[f].coin,
                                !.price = p]]
  /\ UNCHANGED <<phase, now, nextTickAt, store, portfolioCache,
                   lastApiCallTime, cyc, recon, add, rem, resp, reqsLeft,
                   faults, limitsLeft, batchStarts, unhandled, endAt>>

\* cacheManager.js:18-21
FetchRateLimited(f) ==
  /\ fetch[f].pc = "call"
  /\ RetryAgain(fetch[f].retries)
  /\ limitsLeft > 0
  /\ limitsLeft' = limitsLeft - 1
  /\ fetch' = [fetch EXCEPT ![f] =
       [fetch[f] EXCEPT !.pc = "wait", !.wakeAt = now + fetch[f].delay,
                        !.waits = Append(fetch[f].waits, fetch[f].delay)]]
  /\ UNCHANGED <<phase, now, nextTickAt, store, portfolioCache,
                   lastApiCallTime, cyc, recon, add, rem, resp, reqsLeft,
                   faults, batchStarts, unhandled, endAt>>

\* cacheManager.js:20-21 and 16
FetchRetry(f) ==
  /\ fetch[f].pc = "wait"
  /\ Due(fetch[f].wakeAt)
  /\ now' = Max(now, fetch[f].wakeAt)
  /\ fetch' = [fetch EXCEPT ![f] =
       [fetch[f] EXCEPT !.pc = "call", !.wakeAt = 0,
                        !.retries = NextRetries(fetch[f].retries),
                        !.delay = NextDelay(fetch[f].delay)]]
  /\ UNCHANGED <<phase, nextTickAt, store, portfolioCache, lastApiCallTime,
                   cyc, recon, add, rem, resp, reqsLeft, faults, limitsLeft,
                   batchStarts, unhandled, endAt>>

\* cacheManager.js:22-24 and 126-128
FetchFeedFails(f) ==
  /\ fetch[f].pc = "call"
  /\ \E status \in {429, 500} :
       /\ status = 429 => ~RetryAgain(fetch[f].retries) /\ limitsLeft > 0
       /\ limitsLeft' = IF status = 429 THEN limitsLeft - 1 ELSE limitsLeft
  /\ fetch' = [fetch EXCEPT ![f] = FetchIdle]
  /\ UNCHANGED <<phase, now, nextTickAt, store, portfolioCache,
                   lastApiCallTime, cyc, recon, add, rem, resp, reqsLeft,
                   faults, batchStarts, unhandled, endAt>>

\* cacheManager.js:111-123: getPortfolio() settles, the coin's entry is
\* updated and savePortfolio is called
FetchLoaded(f) ==
  /\ fetch[f].pc = "load"
  /\ fetch' = [fetch EXCEPT ![f] =
       [fetch[f] EXCEPT !.pc = "save",
          !.list = ApplyCoinPrice(store, fetch[f].coin, fetch[f].price, now)]]
  /\ UNCHANGED <<phase, now, nextTickAt, store, portfolioCache,
                   lastApiCallTime, cyc, recon, add, rem, resp, reqsLeft,
                   faults, limitsLeft, batchStarts, unhandled, endAt>>

\* cacheManager.js:123-124
FetchSaved(f) ==
  /\ fetch[f].pc = "save"
  /\ store' = fetch[f].list
  /\ portfolioCache' = ArrayOf(fetch[f].list)
  /\ fetch' = [fetch EXCEPT ![f] = FetchIdle]
  /\ UNCHANGED <<phase, now, nextTickAt, lastApiCallTime, cyc, recon, add,
                   rem, resp, reqsLeft, faults, limitsLeft, batchStarts,
                   unhandled, endAt>>

\* a store operation of fetchCoinPrice rejects: caught at line 126
FetchStoreFails(f) ==
  /\ fetch[f].pc \in {"load", "save"}
  /\ faults < MaxFaults
  /\ faults' = faults + 1
  /\ fetch' = [fetch EXCEPT ![f] = FetchIdle]
  /\ UNCHANGED <<phase, now, nextTickAt, store, portfolioCache,
                   lastApiCallTime, cyc, recon, add, rem, resp, reqsLeft,
                   limitsLeft, batchStarts, unhandled, endAt>>

\* ------------------------------------------------ POST /api/portfolio/add
Accepting == phase = "serving" /\ reqsLeft > 0

\* server.js:166-168
AddRejected(c, a) ==
  /\ Accepting
  /\ add.pc = "idle"
  /\ a <= 0
  /\ reqsLeft' = reqsLeft - 1
  /\ resp' = [op |-> "add", status |-> 400, coin |-> c]
  /\ UNCHANGED <<phase, now, nextTickAt, store, portfolioCache,
                   lastApiCallTime, cyc, fetch, recon, add, rem, faults,
                   limitsLeft, batchStarts, unhandled, endAt>>

\* server.js:171-180: getPortfolio() settles, the entry is merged or pushed
\* and savePortfolio is called
AddLoaded(c, a) ==
  /\ Accepting
  /\ add.pc = "idle"
  /\ a > 0
  /\ IdleSlots(fetch) # {}
  /\ reqsLeft' = reqsLeft - 1
  /\ add' = [pc |-> "save", coin |-> c, amount |-> a,
             list |-> AddHolding(store, c, a)]
  /\ UNCHANGED <<phase, now, nextTickAt, store, portfolioCache,
                   lastApiCallTime, cyc, fetch, recon, rem, resp, faults,
                   limitsLeft, batchStarts, unhandled, endAt>>

\* server.js:171 and 186-188: getPortfolio() rejects
AddLoadFails(c, a) ==
  /\ Accepting
  /\ add.pc = "idle"
  /\ a > 0
  /\ faults < MaxFaults
  /\ faults' = faults + 1
  /\ reqsLeft' = reqsLeft - 1
  /\ resp' = [op |-> "add", status |-> 500, coin |-> c]
  /\ UNCHANGED <<phase, now, nextTickAt, store, portfolioCache,
                   lastApiCallTime, cyc, fetch, recon, add, rem, limitsLeft,
                   batchStarts, unhandled, endAt>>

\* server.js:180-185: savePortfolio settles, the cache is set, fetchCoinPrice
\* starts its request, the response is sent
AddSaved ==
  /\ add.pc = "save"
  /\ IdleSlots(fetch) # {}
  /\ store' = add.list
  /\ portfolioCache' = ArrayOf(add.list)
  /\ fetch' = [fetch EXCEPT ![FreeSlot(fetch)] =
       [FetchIdle EXCEPT !.pc = "call", !.coin = add.coin,
                         !.retries = RETRIES, !.delay = RETRY_DELAY]]
  /\ resp' = [op |-> "add", status |-> 200, coin |-> add.coin]
  /\ add' = ReqIdle
  /\ UNCHANGED <<phase, now, nextTickAt, lastApiCallTime, cyc, recon, rem,
                   reqsLeft, faults, limitsLeft, batchStarts, unhandled,
                   endAt>>

\* server.js:180 and 186-188: savePortfolio rejects
AddSaveFails ==
  /\ add.pc = "save"
  /\ faults < MaxFaults
  /\ faults' = faults + 1
  /\ resp' = [op |-> "add", status |-> 500, coin |-> add.coin]
  /\ add' = ReqIdle
  /\ UNCHANGED <<phase, now, nextTickAt, store, portfolioCache,
                   lastApiCallTime, cyc, fetch, recon, rem, reqsLeft,
                   limitsLeft, batchStarts, unhandled, endAt>>

\* ------------------------------------- DELETE /api/portfolio/remove/:coinId
\* server.js:195-199 and 203-205: nothing was filtered out
RemoveNotFound(c) ==
  /\ Accepting
  /\ rem.pc = "idle"
  /\ Len(RemoveHolding(store, c)) >= Len(store)
  /\ reqsLeft' = reqsLeft - 1
  /\ resp' = [op |-> "remove", status |-> 404, coin |-> c]
  /\ UNCHANGED <<phase, now, nextTickAt, store, portfolioCache,
                   lastApiCallTime, cyc, fetch, recon, add, rem, faults,
                   limitsLeft, batchStarts, unhandled, endAt>>

\* server.js:195-200: the list shrank, savePortfolio is called
RemoveLoaded(c) ==
  /\ Accepting
  /\ rem.pc = "idle"
  /\ Len(RemoveHolding(store, c)) < Len(store)
  /\ reqsLeft' = reqsLeft - 1
  /\ rem' = [pc |-> "save", coin |-> c, amount |-> 0,
             list |-> RemoveHolding(store, c)]
  /\ UNCHANGED <<phase, now, nextTickAt, store, portfolioCache,
                   lastApiCallTime, cyc, fetch, recon, add, resp, faults,
                   limitsLeft, batchStarts, unhandled, endAt>>

\* server.js:195 and 206-208: getPortfolio() rejects
RemoveLoadFails(c) ==
  /\ Accepting
  /\ rem.pc = "idle"
  /\ faults < MaxFaults
  /\ faults' = faults + 1
  /\ reqsLeft' = reqsLeft - 1
  /\ resp' = [op |-> "remove", status |-> 500, coin |-> c]
  /\ UNCHANGED <<phase, now, nextTickAt, store, portfolioCache,
                   lastApiCallTime, cyc, fetch, recon, add, rem, limitsLeft,
                   batchStarts, unhandled, endAt>>

\* server.js:200-202
RemoveSaved ==
  /\ rem.pc = "save"
  /\ store' = rem.list
  /\ portfolioCache' = ArrayOf(rem.list)
  /\ resp' = [op |-> "remove", status |-> 200, coin |-> rem.coin]
  /\ rem' = ReqIdle
  /\ UNCHANGED <<phase, now, nextTickAt, lastApiCallTime, cyc, fetch, recon,
                   add, reqsLeft, faults, limitsLeft, batchStarts, unhandled,
                   endAt>>

\* server.js:200 and 206-208: savePortfolio rejects
RemoveSaveFails ==
  /\ rem.pc = "save"
  /\ faults < MaxFaults
  /\ faults' = faults + 1
  /\ resp' = [op |-> "remove", status |-> 500, coin |-> rem.coin]
  /\ rem' = ReqIdle
  /\ UNCHANGED <<phase, now, nextTickAt, store, portfolioCache,
                   lastApiCallTime, cyc, fetch, recon, add, reqsLeft,
                   limitsLeft, batchStarts, unhandled, endAt>>

\* ------------------------------------ GET /api/portfolio and its background
\* the holdings are loaded and the batch request is made before the response
StartReconciliationLoaded == [ReconIdle EXCEPT !.pc = "call", !.list = store]

\* server.js:103-104: the background function starts by calling
\* getPortfolio(); nothing is loaded yet
StartReconciliation == [ReconIdle EXCEPT !.pc = "load"]

\* server.js:61-104: the response is built from the cache and sent, then the
\* background pass starts
ViewAnswered ==
  /\ Accepting
  /\ PortfolioView(portfolioCache).status = 200
  /\ IdleSlots(recon) # {}
  /\ reqsLeft' = reqsLeft - 1
  /\ resp' = [op |-> "view", status |-> 200, coin |-> ""]
  /\ recon' = [recon EXCEPT ![FreeSlot(recon)] = StartReconciliation]
  /\ UNCHANGED <<phase, now, nextTickAt, store, portfolioCache,
                   lastApiCallTime, cyc, fetch, add, rem, faults, limitsLeft,
                   batchStarts, unhandled, endAt>>

\* server.js:63-100 throws and 158-160 answers; no background pass starts
ViewFailed ==
  /\ Accepting
  /\ PortfolioView(portfolioCache).status = 500
  /\ reqsLeft' = reqsLeft - 1
  /\ resp' = [op |-> "view", status |-> 500, coin |-> ""]
  /\ UNCHANGED <<phase, now, nextTickAt, store, portfolioCache,
                   lastApiCallTime, cyc, fetch, recon, add, rem, faults,
                   limitsLeft, batchStarts, unhandled, endAt>>

\* server.js:130
NeedsUpdate(item, t) == ~Truthy(item.usd) \/ t - item.ts >= STALE_AFTER

\* server.js:136: current_price of /coins/markets is a number, and a number
\* has no usd property, so typeof current_price.usd is never 'number'
UsdIsNumber(p) == FALSE

Accepted(q) == q # Absent /\ Truthy(q) /\ UsdIsNumber(q)

RECURSIVE NextStale(_, _, _)
NextStale(list, i, t) ==
  IF i > Len(list) THEN i
  ELSE IF NeedsUpdate(list[i], t) THEN i
  ELSE NextStale(list, i + 1, t)

\* server.js:128-153: the loop runs on to the next holding that needs an
\* update, where it sleeps, or to its end, where savePortfolio is called
Continue(rec, from, t) ==
  IF NextStale(rec.list, from, t) <= Len(rec.list)
    THEN [rec EXCEPT !.pc = "sleep", !.i = NextStale(rec.list, from, t),
                     !.wakeAt = t + PACING_DELAY]
    ELSE [rec EXCEPT !.pc = "save", !.i = 0, !.wakeAt = 0, !.live = NoQuotes]

\* server.js:104-119: getPortfolio() settles; with holdings the batch request
\* starts, without the loop is empty and savePortfolio([]) is called
RecLoaded(r) ==
  /\ recon[r].pc = "load"
  /\ IF store = <<>>
       THEN /\ recon' = [recon EXCEPT ![r] = [ReconIdle EXCEPT !.pc = "save"]]
            /\ UNCHANGED batchStarts
       ELSE /\ recon' = [recon EXCEPT ![r] =
                 [ReconIdle EXCEPT !.pc = "call", !.list = store]]
            /\ batchStarts' = LogBatch(now)
  /\ UNCHANGED <<phase, now, nextTickAt, store, portfolioCache,
                   lastApiCallTime, cyc, fetch, add, rem, resp, reqsLeft,
                   faults, limitsLeft, unhandled, endAt>>

\* server.js:104 or 153: the store call rejects outside any try
RecStoreFails(r) ==
  /\ recon[r].pc \in {"load", "save"}
  /\ faults < MaxFaults
  /\ faults' = faults + 1
  /\ unhandled' = TRUE
  /\ recon' = [recon EXCEPT ![r] = ReconIdle]
  /\ UNCHANGED <<phase, now, nextTickAt, store, portfolioCache,
                   lastApiCallTime, cyc, fetch, add, rem, resp, reqsLeft,
                   limitsLeft, batchStarts, endAt>>

\* server.js:120-122 then 128-133
RecAnswered(r) ==
  /\ recon[r].pc = "call"
  /\ \E q \in Quotes(CoinsOf(recon[r].list)) :
       recon' = [recon EXCEPT ![r] =
         Continue([recon[r] EXCEPT !.live = QuotesFor(CoinsOf(recon[r].list), q)],
                  1, now)]
  /\ UNCHANGED <<phase, now, nextTickAt, store, portfolioCache,
                   lastApiCallTime, cyc, fetch, add, rem, resp, reqsLeft,
                   faults, limitsLeft, batchStarts, unhandled, endAt>>

\* server.js:124-126 then 128-133: the request fails, the loop runs without
\* live data
RecFeedFails(r) ==
  /\ recon[r].pc = "call"
  /\ recon' = [recon EXCEPT ![r] = Continue(recon[r], 1, now)]
  /\ UNCHANGED <<phase, now, nextTickAt, store, portfolioCache,
                   lastApiCallTime, cyc, fetch, add, rem, resp, reqsLeft,
                   faults, limitsLeft, batchStarts, unhandled, endAt>>

\* server.js:133-150: the sleep is over, the holding is updated when its
\* live data is accepted, and the loop goes on
RecPaced(r) ==
  /\ recon[r].pc = "sleep"
  /\ Due(recon[r].wakeAt)
  /\ now' = Max(now, recon[r].wakeAt)
  /\ LET rec == recon[r]
         item == rec.list[rec.i]
         q == rec.live[item.coin]
         upd == IF Accepted(q)
                  THEN [rec EXCEPT !.list[rec.i] =
                         [item EXCEPT !.usd = q, !.ts = now', !.named = TRUE]]
                  ELSE rec
     IN recon' = [recon EXCEPT ![r] = Continue(upd, rec.i + 1, now')]
  /\ UNCHANGED <<phase, nextTickAt, store, portfolioCache, lastApiCallTime,
                   cyc, fetch, add, rem, resp, reqsLeft, faults, limitsLeft,
                   batchStarts, unhandled, endAt>>

\* the pass writes its list only when the stored coins are still the ones it
\* loaded
RecSavedUnlessChanged(r) ==
  /\ recon[r].pc = "save"
  /\ store' = IF CoinsOf(store) = CoinsOf(recon[r].list)
                THEN recon[r].list ELSE store
  /\ recon' = [recon EXCEPT ![r] = ReconIdle]
  /\ UNCHANGED <<phase, now, nextTickAt, portfolioCache, lastApiCallTime, cyc,
                   fetch, add, rem, resp, reqsLeft, faults, limitsLeft,
                   batchStarts, unhandled, endAt>>

\* server.js:153-155: savePortfolio settles; the cache is not touched
RecSaved(r) ==
  /\ recon[r].pc = "save"
  /\ store' = recon[r].list
  /\ recon' = [recon EXCEPT ![r] = ReconIdle]
  /\ UNCHANGED <<phase, now, nextTickAt, portfolioCache, lastApiCallTime, cyc,
                   fetch, add, rem, resp, reqsLeft, faults, limitsLeft,
                   batchStarts, unhandled, endAt>>

\* ------------------------------------------- GET /api/coin/:coinId/price
PriceAnswered(c) ==
  /\ Accepting
  /\ reqsLeft' = reqsLeft - 1
  /\ resp' = [op |-> "price", status |-> PriceLookup(portfolioCache, c).status,
              coin |-> c]
  /\ UNCHANGED <<phase, now, nextTickAt, store, portfolioCache,
                   lastApiCallTime, cyc, fetch, recon, add, rem, faults,
                   limitsLeft, batchStarts, unhandled, endAt>>

\* ------------------------------------------------------------ specification
Next ==
  \/ InitCacheManager
  \/ TickStart
  \/ TickSkip
  \/ \E k \in 1..MaxCycles :
       \/ CycLoaded(k)
       \/ CycStoreFails(k)
       \/ CycEmptySaved(k)
       \/ CycPriced(k)
       \/ CycRateLimited(k)
       \/ CycRetry(k)
       \/ CycFeedFails(k)
       \/ CycSaved(k)
  \/ \E f \in 1..MaxFetch :
       \/ FetchPriced(f)
       \/ FetchRateLimited(f)
       \/ FetchRetry(f)
       \/ FetchFeedFails(f)
       \/ FetchLoaded(f)
       \/ FetchSaved(f)
       \/ FetchStoreFails(f)
  \/ \E c \in Coins, a \in 0..MaxAmount :
       \/ AddRejected(c, a)
       \/ AddLoaded(c, a)
       \/ AddLoadFails(c, a)
  \/ AddSaved
  \/ AddSaveFails
  \/ \E c \in Coins :
       \/ RemoveNotFound(c)
       \/ RemoveLoaded(c)
       \/ RemoveLoadFails(c)
       \/ PriceAnswered(c)
  \/ RemoveSaved
  \/ RemoveSaveFails
  \/ ViewAnswered
  \/ ViewFailed
  \/ \E r \in 1..MaxRecon :
       \/ RecLoaded(r)
       \/ RecStoreFails(r)
       \/ RecAnswered(r)
       \/ RecFeedFails(r)
       \/ RecPaced(r)
       \/ RecSaved(r)

Spec == Init /\ [][Next]_vars

\* The periodic refresh alone: no client request arrives, the feed may answer
\* 429 to every attempt of one wrapped call, and a second cycle may start
\* while the first is still waiting.
InitRefresh ==
  /\ phase = "boot"
  /\ now = StartTime
  /\ nextTickAt = 0
  /\ store \in InitStores
  /\ portfolioCache = EmptyObject
  /\ lastApiCallTime = 0
  /\ cyc = [k \in 1..MaxCycles |-> CycIdle]
  /\ fetch = [k \in 1..MaxFetch |-> FetchIdle]
  /\ recon = [k \in 1..MaxRecon |-> ReconIdle]
  /\ add = ReqIdle
  /\ rem = ReqIdle
  /\ resp = NoResp
  /\ reqsLeft = 0
  /\ faults = 0
  /\ limitsLeft = RETRIES + 1
  /\ batchStarts = <<>>
  /\ unhandled = FALSE
  /\ endAt = MaxTime

NextRefresh ==
  \/ InitCacheManager
  \/ TickStart
  \/ TickSkip
  \/ \E k \in 1..MaxCycles :
       \/ CycLoaded(k)
       \/ CycStoreFails(k)
       \/ CycEmptySaved(k)
       \/ CycPriced(k)
       \/ CycRateLimited(k)
       \/ CycRetry(k)
       \/ CycFeedFails(k)
       \/ CycSaved(k)

SpecRefresh == InitRefresh /\ [][NextRefresh]_vars


\* The periodic refresh over a non-empty portfolio, followed long enough for
\* a third tick to complete.  From some point on every call succeeds: store
\* calls reject at most MaxFaults times, the feed answers 429 at most
\* MaxRateLimited times and fails only during the first interval.  Timers
\* fire and promises settle, hence the weak fairness of the timer and of
\* every task.
InitLive ==
  /\ phase = "boot"
  /\ now = StartTime
  /\ nextTickAt = 0
  /\ store = <<AgedHolding>>
  /\ portfolioCache = EmptyObject
  /\ lastApiCallTime = 0
  /\ cyc = [k \in 1..MaxCycles |-> CycIdle]
  /\ fetch = [k \in 1..MaxFetch |-> FetchIdle]
  /\ recon = [k \in 1..MaxRecon |-> ReconIdle]
  /\ add = ReqIdle
  /\ rem = ReqIdle
  /\ resp = NoResp
  /\ reqsLeft = 0
  /\ faults = 0
  /\ limitsLeft = MaxRateLimited
  /\ batchStarts = <<>>
  /\ unhandled = FALSE
  /\ endAt = StartTime + LiveHorizon

\* cacheManager.js:22-24 and 79-81: the feed fails, in the first interval
CycFeedFailsEarly(k) == CycFeedFails(k) /\ now < StartTime + API_CALL_INTERVAL

\* any step of the k-th fetchAndCachePrices in flight
CycStep(k) ==
  \/ CycLoaded(k)
  \/ CycStoreFails(k)
  \/ CycPriced(k)
  \/ CycRateLimited(k)
  \/ CycRetry(k)
  \/ CycFeedFailsEarly(k)
  \/ CycSaved(k)

NextLive ==
  \/ InitCacheManager
  \/ TickStart
  \/ TickSkip
  \/ \E k \in 1..MaxCycles :
       \/ CycLoaded(k)
       \/ CycStoreFails(k)
       \/ CycPriced(k)
       \/ CycRateLimited(k)
       \/ CycRetry(k)
       \/ CycFeedFailsEarly(k)
       \/ CycSaved(k)

Fairness ==
  /\ WF_vars(InitCacheManager)
  /\ WF_vars(TickStart \/ TickSkip)
  /\ \A k \in 1..MaxCycles : WF_vars(CycStep(k))

SpecLive == InitLive /\ [][NextLive]_vars /\ Fairness
\* ==================================================================== claims
\* the steps of the request handlers, told apart by what they change
ViewStep ==
  reqsLeft' = reqsLeft - 1 /\ resp'.op = "view" /\ add' = add /\ rem' = rem
PriceStep ==
  reqsLeft' = reqsLeft - 1 /\ resp'.op = "price" /\ add' = add /\ rem' = rem
AddLoadStep == add.pc = "idle" /\ add'.pc = "save"
AddSaveStep == add.pc = "save" /\ add'.pc = "idle" /\ resp'.status = 200
RemoveMissStep ==
  /\ reqsLeft' = reqsLeft - 1 /\ add' = add /\ rem' = rem
  /\ resp'.op = "remove" /\ resp'.status = 404
RemoveLoadStep == rem.pc = "idle" /\ rem'.pc = "save"
RemoveSaveStep == rem.pc = "save" /\ rem'.pc = "idle" /\ resp'.status = 200

\* C1: any two batch calls for the whole holdings list begin at least
\* API_CALL_INTERVAL apart, whoever makes them (the periodic refresh or the
\* background pass of a portfolio view).
C1_BatchCallsSpaced ==
  Len(batchStarts) = 2 =>
    batchStarts[2] - batchStarts[1] >= API_CALL_INTERVAL

\* C2: a portfolio view is always answered with success, whatever the cache
\* holds.
C2_ViewAlwaysSucceeds == resp.op = "view" => resp.status = 200

\* C3: the step that answers a portfolio view reads only the cache: it leaves
\* the store, the cache and the log of batch calls alone, its status is the
\* one the cache decides, and the background pass it starts has loaded
\* nothing yet; a background pass starts in no other step.
C3_ViewAnswersFromCache ==
  [][/\ ViewStep =>
          /\ resp'.status = PortfolioView(portfolioCache).status
          /\ store' = store
          /\ portfolioCache' = portfolioCache
          /\ batchStarts' = batchStarts
          /\ \A r \in DOMAIN recon :
               \/ recon'[r] = recon[r]
               \/ /\ recon[r].pc = "idle"
                  /\ recon'[r].pc = "load"
                  /\ recon'[r].list = <<>>
          /\ resp'.status = 200 =>
               \E r \in DOMAIN recon : recon[r].pc = "idle" /\ recon'[r].pc = "load"
     /\ \A r \in DOMAIN recon :
          recon[r].pc = "idle" /\ recon'[r].pc # "idle" =>
            ViewStep /\ resp'.status = 200
    ]_vars

C3_Witness ==
  /\ resp.op = "view"
  /\ resp.status = 200
  /\ \E r \in DOMAIN recon : recon[r].pc = "load"

\* the delays the claim names, in milliseconds
BackoffSchedule == <<1000, 2000, 4000, 8000, 16000>>

\* C4: a 429 answered to an attempt of the periodic refresh's wrapped call is
\* followed by a wait of 1 s, 2 s, 4 s, 8 s, 16 s for the first to the fifth,
\* each wait is waited in full before the next attempt, and the sixth 429
\* ends the call with the failure: the cycle stops and writes nothing.
C4_RetrySchedule ==
  /\ [][\A k \in DOMAIN cyc :
          cyc[k].pc = "call" /\ cyc'[k] # cyc[k] /\ limitsLeft' = limitsLeft - 1 =>
            IF Len(cyc[k].waits) < Len(BackoffSchedule)
              THEN /\ cyc'[k].pc = "wait"
                   /\ cyc'[k].waits =
                        SubSeq(BackoffSchedule, 1, Len(cyc[k].waits) + 1)
                   /\ cyc'[k].wakeAt =
                        now + BackoffSchedule[Len(cyc[k].waits) + 1]
              ELSE /\ cyc'[k] = CycIdle
                   /\ store' = store
                   /\ portfolioCache' = portfolioCache
       ]_vars
  /\ [][\A k \in DOMAIN cyc :
          cyc[k].pc = "wait" /\ cyc'[k] # cyc[k] =>
            /\ cyc'[k].pc = "call"
            /\ now' >= cyc[k].wakeAt
            /\ cyc'[k].waits = cyc[k].waits
       ]_vars

\* every 429 of the run went to the first cycle, which has ended, while the
\* second has not had an answer yet
C4_Witness ==
  /\ limitsLeft = 0
  /\ cyc[1].pc = "idle"
  /\ MaxCycles >= 2 /\ cyc[2].pc = "load"
  /\ now = StartTime + 31000

\* C5: an add of coin c with amount a > 0 saves the loaded list with one new
\* entry (c, a, price 'N/A') appended when c was absent, and with the amount
\* of c's single entry raised by a when c was present; every other entry is
\* saved as loaded, and the cache is set to the saved list.
C5_AddMergesOrAppends ==
  [][/\ AddLoadStep =>
          LET c == add'.coin
              a == add'.amount
              new == add'.list
          IN /\ a > 0
             /\ Cardinality({i \in 1..Len(new) : new[i].coin = c}) = 1
             /\ IF c \in CoinsOf(store)
                  THEN /\ Len(new) = Len(store)
                       /\ \A i \in 1..Len(store) :
                            IF store[i].coin = c
                              THEN new[i] = [store[i] EXCEPT
                                               !.amount = store[i].amount + a]
                              ELSE new[i] = store[i]
                  ELSE /\ Len(new) = Len(store) + 1
                       /\ \A i \in 1..Len(store) : new[i] = store[i]
                       /\ new[Len(new)] =
                            [coin |-> c, amount |-> a, usd |-> NA, ts |-> 0,
                             named |-> FALSE]
     /\ AddSaveStep =>
          /\ store' = add.list
          /\ portfolioCache' = [isArray |-> TRUE, items |-> add.list]
    ]_vars

\* a coin was added twice: one entry, amount 1 + 1, still not priced
C5_Witness ==
  /\ resp.op = "add" /\ resp.status = 200
  /\ add.pc = "idle"
  /\ \E i \in 1..Len(store) :
       /\ store[i].coin = resp.coin
       /\ store[i].amount = 2
       /\ store[i].usd = NA
  /\ portfolioCache = [isArray |-> TRUE, items |-> store]

\* C6: a remove of a coin that is not stored answers not-found and changes
\* neither the store nor the cache; a remove of a stored coin saves the
\* loaded list without that coin's entry, every other entry kept in place,
\* and sets the cache to the saved list.
C6_RemoveExactlyOne ==
  [][/\ RemoveMissStep =>
          /\ resp'.coin \notin CoinsOf(store)
          /\ store' = store
          /\ portfolioCache' = portfolioCache
     /\ RemoveLoadStep =>
          LET c == rem'.coin
              new == rem'.list
          IN /\ c \in CoinsOf(store)
             /\ c \notin CoinsOf(new)
             /\ Len(new) = Len(store) - 1
             /\ \E i \in 1..Len(store) :
                  /\ store[i].coin = c
                  /\ \A j \in 1..Len(new) :
                       new[j] = IF j < i THEN store[j] ELSE store[j + 1]
     /\ RemoveSaveStep =>
          /\ store' = rem.list
          /\ portfolioCache' = [isArray |-> TRUE, items |-> rem.list]
    ]_vars

\* one of two stored coins was removed
C6_Witness ==
  /\ resp.op = "remove" /\ resp.status = 200
  /\ rem.pc = "idle"
  /\ Len(store) = 1
  /\ store[1].coin # resp.coin
  /\ portfolioCache = [isArray |-> TRUE, items |-> store]

\* a remove of a coin that was not stored was answered not-found
C6_WitnessNotFound ==
  /\ resp.op = "remove" /\ resp.status = 404
  /\ store # <<>>

\* C7: when a refresh cycle has saved, a view of the cache it leaves reports
\* every holding of the loaded list that the batch response has an entry for
\* as cached, with the batch price and the value amount x price.
C7_RefreshedHoldingsCached ==
  [][\A k \in DOMAIN cyc :
       cyc[k].pc = "save" /\ cyc'[k].pc = "idle" /\ faults' = faults =>
         LET v == PortfolioView(portfolioCache')
             list == cyc[k].list
         IN \A i \in 1..Len(list) :
              cyc[k].live[list[i].coin] # Absent =>
                /\ v.status = 200
                /\ v.rows[i].coin = list[i].coin
                /\ v.rows[i].cached
                /\ v.rows[i].price = DisplayPrice(cyc[k].live[list[i].coin])
                /\ v.rows[i].value =
                     ToFixed(list[i].amount * cyc[k].live[list[i].coin], 2)
    ]_vars

\* C8: the price route answers with a price exactly when the cache holds an
\* entry of the coin with a price observed less than CACHE_DURATION ago, and
\* answers not-available otherwise.
C8_PriceOnlyWhenFresh ==
  [][PriceStep =>
       LET fresh ==
             /\ portfolioCache.isArray
             /\ \E i \in 1..Len(portfolioCache.items) :
                  /\ portfolioCache.items[i].coin = resp'.coin
                  /\ portfolioCache.items[i].usd > 0
                  /\ now - portfolioCache.items[i].ts < CACHE_DURATION
       IN resp'.status = IF fresh THEN 200 ELSE 404
    ]_vars

\* C9: when a background pass has saved its list, the cache is that list.
C9_PassReplacesCache ==
  [][\A r \in DOMAIN recon :
       recon[r].pc = "save" /\ recon'[r].pc = "idle" /\ ~unhandled' =>
         /\ store' = recon[r].list
         /\ portfolioCache' = [isArray |-> TRUE, items |-> recon[r].list]
    ]_vars

\* C10: no failure of a store or feed call inside a background task leaves
\* the task uncaught.
C10_BackgroundErrorsCaught == ~unhandled


\* the step in which a refresh cycle applies the batch response it received
CycApplyStep(k) == cyc[k].pc = "call" /\ cyc'[k].pc = "save"
\* the times a second application of the same response may run at: at once,
\* or when the next tick is due
ReplayTimes(t) == {t, t + API_CALL_INTERVAL}

\* C11 as stated: the list a refresh cycle builds from a batch response equals,
\* timestamps included, the list built by applying the same response once
\* more, to the loaded holdings or to the ones just built.
C11_ReplayEqual ==
  [][\A k \in DOMAIN cyc :
       CycApplyStep(k) =>
         \A t2 \in ReplayTimes(now) :
           /\ ApplyQuotes(cyc[k].list, cyc'[k].live, t2) = cyc'[k].list
           /\ ApplyQuotes(cyc'[k].list, cyc'[k].live, t2) = cyc'[k].list
    ]_vars

\* C11 amended: applying the same batch response a second time changes no
\* coin, amount, price or name; only the timestamp of each holding the
\* response prices becomes the time of the second application.
C11_ReplayEqualButTimestamp ==
  [][\A k \in DOMAIN cyc :
       CycApplyStep(k) =>
         \A t2 \in ReplayTimes(now) :
           LET q == cyc'[k].live
               once == cyc'[k].list
               twice == ApplyQuotes(once, q, t2)
           IN /\ twice = ApplyQuotes(cyc[k].list, q, t2)
              /\ Len(twice) = Len(once)
              /\ \A i \in 1..Len(once) :
                   twice[i] = [once[i] EXCEPT
                                 !.ts = IF q[once[i].coin] > 0 THEN t2 ELSE @]
    ]_vars

\* a cycle has applied a response that prices one of two holdings and is about
\* to save
C11_Witness ==
  \E k \in DOMAIN cyc :
    /\ cyc[k].pc = "save"
    /\ Len(cyc[k].list) = 2
    /\ \E i, j \in 1..2 :
         /\ cyc[k].live[cyc[k].list[i].coin] > 0
         /\ cyc[k].list[i].ts = now
         /\ cyc[k].list[j].usd = NA


\* the step in which the interval timer fires
TickStep == phase = "serving" /\ nextTickAt' # nextTickAt
\* a call of fetchAndCachePrices passes the gate in this step
CycleStarts == \E k \in DOMAIN cyc : cyc[k].pc = "idle" /\ cyc'[k].pc # "idle"

\* C12: a tick that fires less than API_CALL_INTERVAL after lastApiCallTime
\* does nothing: the store, the cache, lastApiCallTime and every task in
\* flight are as before, no batch call is logged; and nothing is queued for
\* it: a cycle starts only in the step of a trigger that finds the gate open.
C12_SkippedTickIsNoOp ==
  [][/\ TickStep /\ now' - lastApiCallTime < API_CALL_INTERVAL =>
          /\ store' = store
          /\ portfolioCache' = portfolioCache
          /\ lastApiCallTime' = lastApiCallTime
          /\ cyc' = cyc
          /\ fetch' = fetch
          /\ recon' = recon
          /\ batchStarts' = batchStarts
          /\ unhandled' = unhandled
     /\ CycleStarts =>
          /\ phase = "boot" \/ TickStep
          /\ now' - lastApiCallTime >= API_CALL_INTERVAL
          /\ lastApiCallTime' = now'
    ]_vars

\* the first tick came BootLag early and was skipped; the cycle started at
\* boot is the only one so far
C12_Witness ==
  /\ now = StartTime - BootLag + API_CALL_INTERVAL
  /\ nextTickAt = now + API_CALL_INTERVAL
  /\ lastApiCallTime = StartTime
  /\ store # <<>>


\* the step in which a background pass's savePortfolio settles
RecSaveStep(r) ==
  recon[r].pc = "save" /\ recon'[r].pc = "idle" /\ unhandled' = unhandled

\* C13: a background pass saves the list it loaded, with the prices it wrote
\* into it, over whatever the store holds by then: a coin added since the
\* load is gone after the save, a coin removed since is back, and every
\* amount is the loaded one.
C13_PassOverwritesMutation ==
  [][\A r \in DOMAIN recon :
       RecSaveStep(r) =>
         /\ store' = recon[r].list
         /\ \A c \in CoinsOf(store) \ CoinsOf(recon[r].list) :
              c \notin CoinsOf(store')
         /\ \A c \in CoinsOf(recon[r].list) \ CoinsOf(store) :
              c \in CoinsOf(store')
    ]_vars

\* an add was answered with success while a pass that loaded the list before
\* it is about to save: the added coin is stored and is not in the pass's list
C13_Witness ==
  /\ resp.op = "add" /\ resp.status = 200
  /\ add.pc = "idle"
  /\ resp.coin \in CoinsOf(store)
  /\ \E r \in DOMAIN recon :
       /\ recon[r].pc = "save"
       /\ recon[r].list # <<>>
       /\ resp.coin \notin CoinsOf(recon[r].list)


\* which coins a list holds and with what amounts
Membership(list) == {<<list[i].coin, list[i].amount>> : i \in 1..Len(list)}

\* the step in which savePortfolio(updatedPortfolio) of a refresh cycle settles
CycSaveStep(k) ==
  cyc[k].pc = "save" /\ cyc'[k].pc = "idle" /\ faults' = faults

\* C14: the save of a refresh cycle over a non-empty portfolio leaves the
\* coins of the store and their amounts as they were right before it.
C14_CycleKeepsMembership ==
  [][\A k \in DOMAIN cyc :
       CycSaveStep(k) => Membership(store') = Membership(store)
    ]_vars


\* the calls of fetchAndCachePrices that passed the gate and have not ended
InFlight == {k \in DOMAIN cyc : cyc[k].pc # "idle"}
\* those whose wrapped upstream call has started and not returned: an attempt
\* is unanswered, or the wrapper waits before its next attempt
AwaitingFeed == {k \in DOMAIN cyc : cyc[k].pc \in {"call", "wait"}}

\* C15: a tick that fires while the wrapped upstream call of an earlier cycle
\* has not returned, the waits of its retries included, starts no cycle; so
\* no second cycle is ever in flight beside one that awaits the feed.
C15_OneCycleInFlight ==
  [][/\ TickStep /\ AwaitingFeed # {} => cyc' = cyc
     /\ \A k \in AwaitingFeed : InFlight = {k}
    ]_vars


\* the entries a list holds for coin c
EntriesOf(list, c) == {list[i] : i \in {j \in 1..Len(list) : list[j].coin = c}}

\* the step in which savePortfolio of fetchCoinPrice settles and the cache is
\* replaced
FetchSaveStep(f) ==
  fetch[f].pc = "save" /\ fetch'[f].pc = "idle" /\ faults' = faults

\* C16: the writes of a completed on-demand fetch for one coin leave every
\* other coin's entry, in the store and in the cache, as it was right before.
C16_FetchTouchesOneEntry ==
  [][\A f \in DOMAIN fetch :
       FetchSaveStep(f) =>
         \A c \in Coins \ {fetch[f].coin} :
           /\ EntriesOf(store', c) = EntriesOf(store, c)
           /\ EntriesOf(portfolioCache'.items, c) =
                EntriesOf(portfolioCache.items, c)
    ]_vars


\* the step in which a background pass comes back from its pacing sleep and
\* treats the holding it stopped at
RecPaceStep(r) == recon[r].pc = "sleep" /\ recon'[r] # recon[r]

\* C17: the holding a background pass stopped at (its price is missing or
\* STALE_AFTER old) gets the price of the batch response, the time of the
\* write and the feed's name and symbol whenever the response holds a price
\* the periodic refresh would accept (an entry with a truthy current_price);
\* the other holdings of the pass's list stay as they are.
C17_PassWritesStalePrices ==
  [][\A r \in DOMAIN recon :
       RecPaceStep(r) =>
         LET rec == recon[r]
             item == rec.list[rec.i]
             q == rec.live[item.coin]
         IN /\ q # Absent /\ q # 0 =>
                 recon'[r].list[rec.i] =
                   [item EXCEPT !.usd = q, !.ts = now', !.named = TRUE]
            /\ \A j \in 1..Len(rec.list) :
                 j # rec.i => recon'[r].list[j] = rec.list[j]
    ]_vars


\* the tasks that are inside retryAxios
Wrapped ==
  {cyc[k] : k \in {j \in DOMAIN cyc : cyc[j].pc \in {"call", "wait"}}}
  \cup {[pc |-> fetch[k].pc, waits |-> fetch[k].waits] :
          k \in {j \in DOMAIN fetch : fetch[j].pc \in {"call", "wait"}}}
\* the attempts one wrapped call has started: one before each wait, and the
\* one under way
AttemptsStarted(c) == Len(c.waits) + (IF c.pc = "call" THEN 1 ELSE 0)

\* C18 as stated: one wrapped call starts at most 5 attempts, the first
\* included.
C18_AtMostFiveAttempts == \A c \in Wrapped : AttemptsStarted(c) <= 5

\* C18 amended: one wrapped call starts at most RETRIES + 1 = 6 attempts, the
\* first and at most RETRIES retries, and waits at most RETRIES times.
C18_AtMostSixAttempts ==
  \A c \in Wrapped :
    /\ AttemptsStarted(c) <= RETRIES + 1
    /\ Len(c.waits) <= RETRIES

\* five attempts were answered 429 and the sixth is under way, 31 s after the
\* first
C18_Witness ==
  \E k \in DOMAIN cyc :
    /\ cyc[k].pc = "call"
    /\ Len(cyc[k].waits) = RETRIES
    /\ cyc[k].retries = 0
    /\ now = lastApiCallTime + 31000


\* no two entries of the list are for the same coin
OneEntryPerCoin(list) ==
  \A i, j \in 1..Len(list) : list[i].coin = list[j].coin => i = j

\* C19: in every reachable state the stored list and the cached list hold at
\* most one entry per coin, and so does every list a request or a background
\* task is about to write.
C19_OneEntryPerCoin ==
  /\ OneEntryPerCoin(store)
  /\ OneEntryPerCoin(portfolioCache.items)
  /\ OneEntryPerCoin(add.list) /\ OneEntryPerCoin(rem.list)
  /\ \A k \in DOMAIN cyc : OneEntryPerCoin(cyc[k].list)
  /\ \A f \in DOMAIN fetch : OneEntryPerCoin(fetch[f].list)
  /\ \A r \in DOMAIN recon : OneEntryPerCoin(recon[r].list)

\* a coin that was stored and priced was added once more: still one entry,
\* with the amounts summed, while the fetch for it is in flight
C19_Witness ==
  /\ resp.op = "add" /\ resp.status = 200
  /\ \E i \in 1..Len(store) :
       /\ store[i].coin = resp.coin
       /\ store[i].amount = 2
       /\ store[i].usd > 0
  /\ portfolioCache.items = store
  /\ \E f \in DOMAIN fetch : fetch[f].pc # "idle" /\ fetch[f].coin = resp.coin


\* every call of fetchAndCachePrices so far has failed: none is in flight and
\* the cache was never filled
AllFailedSoFar ==
  phase # "boot" /\ InFlight = {} /\ ~portfolioCache.isArray
\* a tick after the boot call has passed the gate and the cache holds the
\* holdings
Refreshed ==
  /\ lastApiCallTime > StartTime
  /\ portfolioCache.isArray
  /\ portfolioCache.items # <<>>

\* C20: when every refresh so far has failed, and from some point on every
\* store and feed call succeeds, a later tick passes the gate and a cycle
\* fills the cache; the cache a cycle fills holds, for every holding the
\* response prices, that price.
C20_FailedTickIsRetried ==
  /\ AllFailedSoFar ~> Refreshed
  /\ [][\A k \in DOMAIN cyc :
          CycSaveStep(k) =>
            /\ portfolioCache'.isArray
            /\ Len(portfolioCache'.items) = Len(cyc[k].list)
            /\ \A i \in 1..Len(cyc[k].list) :
                 /\ portfolioCache'.items[i].coin = cyc[k].list[i].coin
                 /\ cyc[k].live[cyc[k].list[i].coin] > 0 =>
                      portfolioCache'.items[i].usd =
                        cyc[k].live[cyc[k].list[i].coin]
       ]_vars

\* the boot call failed on the feed and the next call on the store: two
\* failed ticks, no cache, and a tick still to come
C20_Witness ==
  /\ AllFailedSoFar
  /\ faults = MaxFaults
  /\ lastApiCallTime > StartTime
  /\ nextTickAt <= endAt

====
